---- MODULE Spec2Model ----
(***************************************************************************)
(* Model of src/lambda/lambda_function.py: the Lambda handler that         *)
(* validates a prompt, calls the Bedrock runtime once and wraps the        *)
(* outcome in an API Gateway response.                                     *)
(*                                                                         *)
(* Python values are tagged records.  A Python str is a run-length encoded *)
(* sequence of symbols <<[c |-> symbol, n |-> count], ...>> in canonical   *)
(* form (no empty run, no two adjacent runs of one symbol), so that len,   *)
(* strip, the substring test and concatenation are computed, and a prompt  *)
(* of 4000 characters is one run.  The symbols of request data are single  *)
(* characters; a literal of the program is one symbol.                     *)
(*                                                                         *)
(* The events are the values the Lambda runtime can hand over: values      *)
(* decoded from JSON, hence always serialisable by the logging line 218.   *)
(* Logging itself changes no state of the program and is not modelled.     *)
(***************************************************************************)
EXTENDS Integers, Sequences, FiniteSets, TLC

\* -------------------------------------------------------------------------
\* Bounds of the model
\* -------------------------------------------------------------------------
\* the most whitespace put before and after the core of a prompt
MaxPad == 1
\* how far below the length limit the long prompt cores start
Slack == 1

\* -------------------------------------------------------------------------
\* Program constants
\* -------------------------------------------------------------------------
MAX_PROMPT_LEN == 4000
MAX_TOKENS == 4000

\* -------------------------------------------------------------------------
\* Python str
\* -------------------------------------------------------------------------
Run(c, n) == [c |-> c, n |-> n]
Rep(c, n) == IF n = 0 THEN <<>> ELSE <<Run(c, n)>>
Lit(w) == <<Run(w, 1)>>

\* s + t
Cat(s, t) ==
    IF s = <<>> THEN t
    ELSE IF t = <<>> THEN s
    ELSE IF s[Len(s)].c = t[1].c
         THEN SubSeq(s, 1, Len(s) - 1)
                  \o <<Run(t[1].c, s[Len(s)].n + t[1].n)>>
                  \o Tail(t)
         ELSE s \o t

IsSpace(c) == c \in {" ", "\t", "\n"}

RECURSIVE lstrip(_)
lstrip(s) ==
    IF s = <<>> THEN <<>>
    ELSE IF IsSpace(s[1].c) THEN lstrip(Tail(s))
    ELSE s

RECURSIVE rstrip(_)
rstrip(s) ==
    IF s = <<>> THEN <<>>
    ELSE IF IsSpace(s[Len(s)].c) THEN rstrip(SubSeq(s, 1, Len(s) - 1))
    ELSE s

\* str.strip()
strip(s) == rstrip(lstrip(s))

\* the number of characters of a symbol: the words that occur in request
\* data; every other symbol of request data is one character (the literals
\* of the program are never measured)
Width(c) ==
    CASE c = "prompt" -> 6
      [] c = "message" -> 7
      [] c = "hello" -> 5
      [] OTHER -> 1

RECURSIVE StrLen(_)
\* len(s) of a str
StrLen(s) ==
    IF s = <<>> THEN 0
    ELSE s[1].n * Width(s[1].c) + StrLen(Tail(s))

\* needle in s, for two str: a window of adjacent runs of s carries the
\* symbols of the needle, the inner runs exactly, the outer ones at least
StrContains(needle, s) ==
    IF needle = <<>> THEN TRUE
    ELSE \E i \in 1..Len(s) :
           /\ i + Len(needle) - 1 <= Len(s)
           /\ \A j \in 1..Len(needle) :
                IF j = 1 \/ j = Len(needle)
                THEN /\ s[i + j - 1].c = needle[j].c
                     /\ s[i + j - 1].n >= needle[j].n
                ELSE s[i + j - 1] = needle[j]

\* -------------------------------------------------------------------------
\* Python values
\* -------------------------------------------------------------------------
PyNone == [t |-> "NoneType"]
PyBool(b) == [t |-> "bool", b |-> b]
PyInt(i) == [t |-> "int", i |-> i]
PyFloat(f) == [t |-> "float", f |-> f]
PyStr(s) == [t |-> "str", s |-> s]
PyList(l) == [t |-> "list", l |-> l]
\* a dict is the sequence of its items in insertion order, the keys distinct
PyDict(d) == [t |-> "dict", d |-> d]
Item(k, v) == [k |-> PyStr(Lit(k)), v |-> v]

\* the outcome of evaluating an expression: a value, or a raised exception
Ok(v) == [ok |-> TRUE, v |-> v]
Raise(e) == [ok |-> FALSE, exc |-> e]

\* evaluation in sequence: an exception raised by the first step ends it,
\* its value goes to the rest
Bind(o, F(_)) == IF o.ok THEN F(o.v) ELSE o

\* bool(x)
Truthy(x) ==
    CASE x.t = "NoneType" -> FALSE
      [] x.t = "bool" -> x.b
      [] x.t = "int" -> x.i # 0
      [] x.t = "float" -> TRUE
      [] x.t = "str" -> x.s # <<>>
      [] x.t = "list" -> x.l # <<>>
      [] x.t = "dict" -> x.d # <<>>

DictHas(x, k) == \E i \in 1..Len(x.d) : x.d[i].k = k
DictValue(x, k) == x.d[CHOOSE i \in 1..Len(x.d) : x.d[i].k = k].v

\* k in x, for a str k
In(k, x) ==
    CASE x.t = "dict" -> Ok(DictHas(x, k))
      [] x.t = "list" -> Ok(\E i \in 1..Len(x.l) : x.l[i] = k)
      [] x.t = "str" -> Ok(StrContains(k.s, x.s))
      [] OTHER -> Raise("TypeError")

\* x[k], for a str k
GetItem(x, k) ==
    CASE x.t = "dict" -> IF DictHas(x, k) THEN Ok(DictValue(x, k))
                         ELSE Raise("KeyError")
      [] OTHER -> Raise("TypeError")

\* a slip: x[-1]
Last(x) ==
    CASE x.t = "list" -> IF x.l = <<>> THEN Raise("IndexError") ELSE Ok(x.l[Len(x.l)])
      [] x.t = "str" -> IF x.s = <<>> THEN Raise("IndexError")
                        ELSE Ok(PyStr(Rep(x.s[Len(x.s)].c, 1)))
      [] x.t = "dict" -> Raise("KeyError")
      [] OTHER -> Raise("TypeError")

\* x[0]
First(x) ==
    CASE x.t = "list" -> IF x.l = <<>> THEN Raise("IndexError") ELSE Ok(x.l[1])
      [] x.t = "str" -> IF x.s = <<>> THEN Raise("IndexError")
                        ELSE Ok(PyStr(Rep(x.s[1].c, 1)))
      [] x.t = "dict" -> Raise("KeyError")
      [] OTHER -> Raise("TypeError")

\* len(x)
PyLen(x) ==
    CASE x.t = "str" -> Ok(StrLen(x.s))
      [] x.t = "list" -> Ok(Len(x.l))
      [] x.t = "dict" -> Ok(Len(x.d))
      [] OTHER -> Raise("TypeError")

\* x.get(k, default)
Get(x, k, default) ==
    IF x.t = "dict"
    THEN Ok(IF DictHas(x, k) THEN DictValue(x, k) ELSE default)
    ELSE Raise("AttributeError")

\* -------------------------------------------------------------------------
\* json
\* -------------------------------------------------------------------------
RECURSIVE json_dumps(_)
RECURSIVE DumpList(_)
RECURSIVE DumpDict(_)

\* the elements of a list, joined by ", "
DumpList(l) ==
    IF l = <<>> THEN <<>>
    ELSE IF Len(l) = 1 THEN json_dumps(l[1])
    ELSE Cat(Cat(json_dumps(l[1]), Lit(", ")), DumpList(Tail(l)))

\* the items of a dict as "key": value, joined by ", "
DumpDict(d) ==
    IF d = <<>> THEN <<>>
    ELSE LET item == Cat(Cat(json_dumps(d[1].k), Lit(": ")), json_dumps(d[1].v))
         IN  IF Len(d) = 1 THEN item
             ELSE Cat(Cat(item, Lit(", ")), DumpDict(Tail(d)))

\* json.dumps(x), with the default separators
json_dumps(x) ==
    CASE x.t = "NoneType" -> Lit("null")
      [] x.t = "bool" -> IF x.b THEN Lit("true") ELSE Lit("false")
      [] x.t = "int" -> Lit(ToString(x.i))
      [] x.t = "float" -> Lit(x.f)
      [] x.t = "str" -> Cat(Cat(Lit("\""), x.s), Lit("\""))
      [] x.t = "list" -> Cat(Cat(Lit("["), DumpList(x.l)), Lit("]"))
      [] x.t = "dict" -> Cat(Cat(Lit("{"), DumpDict(x.d)), Lit("}"))

\* -------------------------------------------------------------------------
\* Inputs: prompts, request bodies, events
\* -------------------------------------------------------------------------
Pad(n) == Rep(" ", n)

\* prompt cores: nothing, one character, words around an inner blank, and
\* runs of characters around the length limit
Cores ==
    {<<>>, Rep("a", 1), Cat(Cat(Rep("a", 1), Pad(1)), Rep("a", 1))}
        \cup {Rep("a", n) : n \in (MAX_PROMPT_LEN - Slack)..(MAX_PROMPT_LEN + 1)}

Prompts ==
    {Cat(Cat(Pad(l), core), Pad(t)) : l \in 0..MaxPad, t \in 0..MaxPad, core \in Cores}
        \cup {Pad(n) : n \in MAX_PROMPT_LEN..(MAX_PROMPT_LEN + 1)}

Hello == PyStr(Lit("hello"))
PromptKey == PyStr(Lit("prompt"))

\* the values a request body can decode to
RequestJson ==
    {PyNone, PyInt(42), Hello, PromptKey,
     PyList(<<>>), PyList(<<Hello>>), PyList(<<PromptKey>>),
     PyDict(<<>>), PyDict(<<Item("message", Hello)>>),
     PyDict(<<Item("prompt", PyInt(123))>>),
     PyDict(<<Item("prompt", PyNone)>>),
     PyDict(<<Item("prompt", PyList(<<Hello>>))>>),
     PyDict(<<Item("message", Hello), Item("prompt", PyStr(Rep("a", 1)))>>)}
        \cup {PyDict(<<Item("prompt", PyStr(p))>>) : p \in Prompts}

\* a text cut before its end
Truncated(s) == SubSeq(s, 1, Len(s) - 1)

\* the texts a request body can hold: JSON texts and texts that are no JSON
BodyTexts ==
    {json_dumps(v) : v \in RequestJson}
        \cup {Lit("invalid json"),
              Truncated(json_dumps(PyDict(<<Item("prompt", PyStr(Rep("a", 1)))>>)))}

\* the values of the body field of an event: a text, the empty text, null,
\* or a value that is no text
BodyValues ==
    {PyStr(s) : s \in BodyTexts}
        \cup {PyStr(<<>>), PyNone, PyInt(0), PyInt(5),
              PyDict(<<Item("prompt", PyStr(Rep("a", 1)))>>)}

MethodValues == {PyStr(Lit("OPTIONS")), PyStr(Lit("POST"))}

\* the events: mappings with or without httpMethod and body, and values that
\* are no mapping
Events ==
    {PyDict(<<Item("httpMethod", m), Item("body", b)>>) : m \in MethodValues, b \in BodyValues}
        \cup {PyDict(<<Item("body", b)>>) : b \in BodyValues}
        \cup {PyDict(<<Item("httpMethod", m)>>) : m \in MethodValues}
        \cup {PyDict(<<>>), PyNone, PyList(<<>>), PyStr(Lit("body"))}

\* -------------------------------------------------------------------------
\* The remote inference call
\* -------------------------------------------------------------------------
HelloText == PyStr(Lit("Hello! How can I help you today?"))
OtherText == PyStr(Lit("Second item"))
Usage == PyDict(<<Item("input_tokens", PyInt(10)), Item("output_tokens", PyInt(15))>>)
TextItem(x) == PyDict(<<Item("text", x)>>)
ToolItem == PyDict(<<Item("type", PyStr(Lit("tool_use")))>>)

\* the values the body of a model response can decode to
ResponseJson ==
    {PyDict(<<Item("content", PyList(<<TextItem(HelloText)>>)), Item("usage", Usage)>>),
     PyDict(<<Item("content", PyList(<<TextItem(HelloText)>>)), Item("usage", PyDict(<<>>))>>),
     PyDict(<<Item("content", PyList(<<TextItem(HelloText)>>))>>),
     PyDict(<<Item("content", PyList(<<TextItem(OtherText), TextItem(HelloText)>>)),
              Item("usage", Usage)>>),
     PyDict(<<Item("content", PyList(<<ToolItem, TextItem(HelloText)>>)), Item("usage", Usage)>>),
     PyDict(<<Item("content", PyList(<<>>)), Item("usage", Usage)>>),
     PyDict(<<Item("unexpected_field", PyStr(Lit("value")))>>),
     PyDict(<<>>), PyNone, PyList(<<>>), PyList(<<PyStr(Lit("content"))>>)}

\* a StreamingBody holding a text
Stream(s) == [t |-> "stream", data |-> s]

\* the responses invoke_model can return: a body holding a JSON text or a
\* text that is no JSON, or no body
Responses ==
    {PyDict(<<Item("body", Stream(json_dumps(v)))>>) : v \in ResponseJson}
        \cup {PyDict(<<Item("body", Stream(Lit("<html>")))>>), PyDict(<<>>)}

ErrorCodes ==
    {"AccessDeniedException", "ValidationException", "ThrottlingException",
     "ServiceUnavailableException"}
ServiceMessages == {"service message one", "service message two"}

\* the response payloads a ClientError can carry
ErrorResponses ==
    {PyDict(<<Item("Error", PyDict(<<Item("Code", PyStr(Lit(c))),
                                     Item("Message", PyStr(Lit(m)))>>))>>) :
        c \in ErrorCodes, m \in ServiceMessages}
        \cup {PyDict(<<Item("Error", PyDict(<<Item("Code", PyStr(Lit(c)))>>))>>) :
                c \in ErrorCodes}
        \cup {PyDict(<<Item("Error", PyDict(<<Item("Message", PyStr(Lit(m)))>>))>>) :
                m \in ServiceMessages}
        \cup {PyDict(<<Item("Error", PyDict(<<>>))>>), PyDict(<<>>)}

\* what bedrock_client.invoke_model can do
RemoteBehaviours ==
    {[kind |-> "returns", response |-> r] : r \in Responses}
        \cup {[kind |-> "ClientError", response |-> r] : r \in ErrorResponses}
        \cup {[kind |-> "BotoCoreError"], [kind |-> "Exception"]}

\* body.read()
Read(x) == IF x.t = "stream" THEN Ok(PyStr(x.data)) ELSE Raise("AttributeError")

\* -------------------------------------------------------------------------
\* json.loads
\* -------------------------------------------------------------------------
JsonValues == RequestJson \cup ResponseJson
JsonTexts == [v \in JsonValues |-> json_dumps(v)]

\* the outcome of parsing a text, given the values whose text it is
Decoded(vs) ==
    IF vs = {} THEN Raise("JSONDecodeError") ELSE Ok(CHOOSE v \in vs : TRUE)

\* json.loads(x): the value whose text x is; a text of no value is no JSON,
\* and anything but a text is a TypeError
json_loads(x) ==
    IF x.t # "str" THEN Raise("TypeError")
    ELSE Decoded({v \in JsonValues : JsonTexts[v] = x.s})

\* -------------------------------------------------------------------------
\* create_response
\* -------------------------------------------------------------------------
BEDROCK_MODEL_ID == PyStr(Lit("anthropic.claude-3-5-haiku-20241022-v1:0"))

default_headers ==
    PyDict(<<Item("Content-Type", PyStr(Lit("application/json"))),
             Item("Access-Control-Allow-Origin", PyStr(Lit("*"))),
             Item("Access-Control-Allow-Methods", PyStr(Lit("POST, OPTIONS"))),
             Item("Access-Control-Allow-Headers", PyStr(Lit("Content-Type, Authorization")))>>)

\* create_response(status_code, body), the headers left to their default
create_response(status_code, body) ==
    [statusCode |-> status_code, headers |-> default_headers, body |-> json_dumps(body)]

\* -------------------------------------------------------------------------
\* validate_request
\* -------------------------------------------------------------------------
BodyRequired == PyStr(Lit("Request body is required"))
InvalidJson == PyStr(Lit("Invalid JSON in request body"))
MissingPrompt == PyStr(Lit("Missing 'prompt' field in request body"))
PromptNotString == PyStr(Lit("Prompt must be a string"))
PromptEmpty == PyStr(Lit("Prompt cannot be empty"))
PromptTooLong == PyStr(Lit("Prompt exceeds maximum length of 4000 characters"))
InvalidFormat == PyStr(Lit("Invalid request format"))

BodyKey == PyStr(Lit("body"))

\* a slip: the length limit is exclusive
check_prompt_exclusive(prompt) ==
    IF prompt.t # "str" THEN Ok(PromptNotString)
    ELSE IF strip(prompt.s) = <<>> THEN Ok(PromptEmpty)
    ELSE IF StrLen(prompt.s) >= MAX_PROMPT_LEN THEN Ok(PromptTooLong)
    ELSE Ok(PyNone)

\* lines 87-97: the checks of the prompt
check_prompt(prompt) ==
    IF prompt.t # "str" THEN Ok(PromptNotString)
    ELSE IF strip(prompt.s) = <<>> THEN Ok(PromptEmpty)
    ELSE IF StrLen(prompt.s) > MAX_PROMPT_LEN THEN Ok(PromptTooLong)
    ELSE Ok(PyNone)

\* lines 83-89: the parsed body holds a prompt
check_body(body) ==
    Bind(In(PromptKey, body), LAMBDA has :
        IF ~has THEN Ok(MissingPrompt)
        ELSE Bind(GetItem(body, PromptKey), LAMBDA prompt : check_prompt(prompt)))

\* lines 78-81: the body parsed, a text that is no JSON rejected
parse_body(parsed) ==
    IF ~parsed.ok /\ parsed.exc = "JSONDecodeError" THEN Ok(InvalidJson)
    ELSE Bind(parsed, LAMBDA body : check_body(body))

\* lines 73-97: the body of the try statement
validate_try(ev) ==
    Bind(In(BodyKey, ev), LAMBDA has :
        IF ~has THEN Ok(BodyRequired)
        ELSE Bind(GetItem(ev, BodyKey), LAMBDA raw :
                 IF ~Truthy(raw) THEN Ok(BodyRequired)
                 ELSE parse_body(json_loads(raw))))

\* a slip: an exception of the checks passes for a valid request
validate_except_swallow(r) == IF r.ok THEN r.v ELSE PyNone

\* lines 99-101: an exception of the checks becomes a rejection
validate_except(r) == IF r.ok THEN r.v ELSE InvalidFormat

\* validate_request(event): None, or the reason of the rejection
validate_request(ev) == validate_except(validate_try(ev))

\* -------------------------------------------------------------------------
\* invoke_bedrock_model
\* -------------------------------------------------------------------------
UnexpectedFormat == PyStr(Lit("Unexpected response format from AI model"))
AccessDenied == PyStr(Lit("Access denied to Bedrock model. Please check IAM permissions."))
InvalidRequest == PyStr(Lit("Invalid request to Bedrock model."))
Throttled == PyStr(Lit("Request throttled. Please try again later."))
NetworkError == PyStr(Lit("Network or configuration error accessing Bedrock service"))
InternalError == PyStr(Lit("Internal server error processing AI request"))
ServiceErrorPrefix == Lit("Bedrock service error: ")

Failure(message) == PyDict(<<Item("success", PyBool(FALSE)), Item("error", message)>>)
Success(text, usage) ==
    PyDict(<<Item("success", PyBool(TRUE)), Item("response", text),
             Item("model_id", BEDROCK_MODEL_ID), Item("usage", usage)>>)

\* lines 120-130
request_body(prompt) ==
    PyDict(<<Item("anthropic_version", PyStr(Lit("bedrock-2023-05-31"))),
             Item("max_tokens", PyInt(MAX_TOKENS)),
             Item("temperature", PyFloat("0.7")),
             Item("messages", PyList(<<PyDict(<<Item("role", PyStr(Lit("user"))),
                                                Item("content", prompt)>>)>>))>>)

\* lines 135-140: the arguments of bedrock_client.invoke_model
model_request(prompt) ==
    [modelId |-> BEDROCK_MODEL_ID, body |-> json_dumps(request_body(prompt)),
     contentType |-> "application/json", accept |-> "application/json"]

\* lines 147-154: the result built from the first content item
first_text(response_body, content) ==
    Bind(First(content), LAMBDA item :
        Bind(GetItem(item, PyStr(Lit("text"))), LAMBDA generated_text :
            Bind(Get(response_body, PyStr(Lit("usage")), PyDict(<<>>)), LAMBDA usage :
                Ok(Success(generated_text, usage)))))

\* lines 146-160: the result of a parsed response
extract_text(response_body) ==
    Bind(In(PyStr(Lit("content")), response_body), LAMBDA has :
        IF ~has THEN Ok(Failure(UnexpectedFormat))
        ELSE Bind(GetItem(response_body, PyStr(Lit("content"))), LAMBDA content :
                 Bind(PyLen(content), LAMBDA n :
                     IF n > 0 THEN first_text(response_body, content)
                     ELSE Ok(Failure(UnexpectedFormat)))))

\* lines 135-160: the body of the try statement, given what the call does
invoke_try(remote) ==
    IF remote.kind # "returns" THEN Raise(remote.kind)
    ELSE Bind(GetItem(remote.response, BodyKey), LAMBDA stream :
             Bind(Read(stream), LAMBDA data :
                 Bind(json_loads(data), LAMBDA response_body :
                     extract_text(response_body))))

\* lines 167-186: the message for an error code
error_result(error_code, error_message) ==
    IF error_code = PyStr(Lit("AccessDeniedException")) THEN Failure(AccessDenied)
    ELSE IF error_code = PyStr(Lit("ValidationException")) THEN Failure(InvalidRequest)
    ELSE IF error_code = PyStr(Lit("ThrottlingException")) THEN Failure(Throttled)
    ELSE Failure(PyStr(Cat(ServiceErrorPrefix, error_message.s)))

\* lines 162-186: the handler of ClientError
on_client_error(response) ==
    Bind(GetItem(response, PyStr(Lit("Error"))), LAMBDA error :
        Bind(GetItem(error, PyStr(Lit("Code"))), LAMBDA error_code :
            Bind(GetItem(error, PyStr(Lit("Message"))), LAMBDA error_message :
                Ok(error_result(error_code, error_message)))))

\* lines 162-200: the except clauses
invoke_except(r, remote) ==
    IF r.ok THEN r
    ELSE IF r.exc = "ClientError" THEN on_client_error(remote.response)
    ELSE IF r.exc = "BotoCoreError" THEN Ok(Failure(NetworkError))
    ELSE Ok(Failure(InternalError))

\* invoke_bedrock_model(prompt), given what the remote call does: the result
\* mapping, or the exception that leaves the function
invoke_bedrock_model(prompt, remote) == invoke_except(invoke_try(remote), remote)

\* -------------------------------------------------------------------------
\* lambda_handler
\* -------------------------------------------------------------------------
CorsBody == PyDict(<<Item("message", PyStr(Lit("CORS preflight successful")))>>)
BadRequest(message) ==
    PyDict(<<Item("error", PyStr(Lit("Bad Request"))), Item("message", message)>>)
ServerError(message) ==
    PyDict(<<Item("error", PyStr(Lit("Internal Server Error"))), Item("message", message)>>)
UnexpectedError == PyStr(Lit("An unexpected error occurred"))

\* a slip: the prompt is sent as it came
Strip_nothing(x) == IF x.t = "str" THEN Ok(x) ELSE Raise("AttributeError")

\* prompt.strip()
Strip(x) == IF x.t = "str" THEN Ok(PyStr(strip(x.s))) ELSE Raise("AttributeError")

\* lines 233-235: the prompt of a validated request, trimmed
extract_prompt(ev) ==
    Bind(GetItem(ev, BodyKey), LAMBDA raw :
        Bind(json_loads(raw), LAMBDA body :
            Bind(GetItem(body, PromptKey), LAMBDA prompt : Strip(prompt))))

\* lines 233-240: the validated request goes to the model, or raises
to_call(validation_error, prompt) ==
    IF prompt.ok
    THEN [at |-> "call", validated |-> <<validation_error>>, v |-> prompt.v]
    ELSE [at |-> "raise", validated |-> <<validation_error>>, exc |-> prompt.exc]

\* lines 225-240: the request rejected, or sent on
after_validation(ev, validation_error) ==
    IF Truthy(validation_error)
    THEN [at |-> "return", validated |-> <<validation_error>>,
          v |-> create_response(400, BadRequest(validation_error))]
    ELSE to_call(validation_error, extract_prompt(ev))

\* a slip: the preflight request is validated like any other
after_method_no_preflight(ev, method) ==
    IF ~method.ok THEN [at |-> "raise", validated |-> <<>>, exc |-> method.exc]
    ELSE after_validation(ev, validate_request(ev))

\* lines 221-240: a preflight request answered, any other validated
after_method(ev, method) ==
    IF ~method.ok THEN [at |-> "raise", validated |-> <<>>, exc |-> method.exc]
    ELSE IF method.v = PyStr(Lit("OPTIONS"))
    THEN [at |-> "return", validated |-> <<>>, v |-> create_response(200, CorsBody)]
    ELSE after_validation(ev, validate_request(ev))

\* lines 218-240: the handler up to the remote call: it returns an envelope,
\* raises, or calls the model with a prompt; validated holds the results of
\* the calls of validate_request
handler_until_call(ev) == after_method(ev, Get(ev, PyStr(Lit("httpMethod")), PyNone))

\* lines 244-249: the envelope of a success
success_response(bedrock_response) ==
    Bind(GetItem(bedrock_response, PyStr(Lit("response"))), LAMBDA response :
        Bind(GetItem(bedrock_response, PyStr(Lit("model_id"))), LAMBDA model_id :
            Bind(Get(bedrock_response, PyStr(Lit("usage")), PyDict(<<>>)), LAMBDA usage :
                Ok(create_response(200,
                     PyDict(<<Item("message", PyStr(Lit("Success"))),
                              Item("response", response),
                              Item("model_id", model_id),
                              Item("usage", usage)>>))))))

\* lines 242-255: the envelope of the result of invoke_bedrock_model
handler_after_call(bedrock_response) ==
    Bind(GetItem(bedrock_response, PyStr(Lit("success"))), LAMBDA success :
        IF Truthy(success) THEN success_response(bedrock_response)
        ELSE Bind(GetItem(bedrock_response, PyStr(Lit("error"))), LAMBDA error :
                 Ok(create_response(500, ServerError(error)))))

\* a slip: the except clauses raise again
handler_except_reraise(exc) == Raise(exc)

\* lines 257-269: the except clauses of lambda_handler
handler_except(exc) ==
    IF exc = "JSONDecodeError"
    THEN Ok(create_response(400, BadRequest(InvalidJson)))
    ELSE Ok(create_response(500, ServerError(UnexpectedError)))

\* lines 257-269 applied to the outcome of the try statement
handler_catch(r) == IF r.ok THEN r ELSE handler_except(r.exc)

\* lines 240-269: the handler from the return of the remote call on, given
\* the outcome of invoke_bedrock_model
handler_from_call(outcome) == handler_catch(Bind(outcome, LAMBDA v : handler_after_call(v)))

\* -------------------------------------------------------------------------
\* The state machine of one invocation
\* -------------------------------------------------------------------------
VARIABLES
    event,      \* the event handed to lambda_handler
    pc,         \* "received", "invoking" (suspended in invoke_model), "responded"
    validated,  \* the results of the calls of validate_request, in order
    prompt,     \* the local variable prompt of lambda_handler
    requests,   \* the arguments of the calls of invoke_model, in order
    remote,     \* what each call of invoke_model did, in order
    invoked,    \* the outcomes of invoke_bedrock_model, in order
    responses,  \* the envelopes lambda_handler returned
    escaped,    \* the exceptions that left lambda_handler
    prev        \* the earlier invocations on this event

vars == <<event, pc, validated, prompt, requests, remote, invoked, responses, escaped, prev>>

Init ==
    /\ event \in Events
    /\ pc = "received"
    /\ validated = <<>>
    /\ prompt = PyNone
    /\ requests = <<>>
    /\ remote = <<>>
    /\ invoked = <<>>
    /\ responses = <<>>
    /\ escaped = <<>>
    /\ prev = <<>>

\* lambda_handler returns the envelope, or the exception leaves it
Deliver(answer) ==
    /\ pc' = "responded"
    /\ IF answer.ok
       THEN responses' = Append(responses, answer.v) /\ escaped' = escaped
       ELSE escaped' = Append(escaped, answer.exc) /\ responses' = responses

\* lines 220-222: a preflight request is answered at once
CorsPreflight ==
    /\ pc = "received"
    /\ \E r \in {handler_until_call(event)} :
           /\ r.at = "return"
           /\ r.validated = <<>>
           /\ validated' = r.validated
           /\ Deliver(Ok(r.v))
    /\ UNCHANGED <<event, prompt, requests, remote, invoked, prev>>

\* lines 224-231: the request fails validation
RejectRequest ==
    /\ pc = "received"
    /\ \E r \in {handler_until_call(event)} :
           /\ r.at = "return"
           /\ r.validated # <<>>
           /\ validated' = r.validated
           /\ Deliver(Ok(r.v))
    /\ UNCHANGED <<event, prompt, requests, remote, invoked, prev>>

\* lines 257-269: an exception before the remote call
FailBeforeCall ==
    /\ pc = "received"
    /\ \E r \in {handler_until_call(event)} :
           /\ r.at = "raise"
           /\ validated' = r.validated
           /\ Deliver(handler_except(r.exc))
    /\ UNCHANGED <<event, prompt, requests, remote, invoked, prev>>

\* lines 233-240 and 120-140: the validated prompt is sent to the model
CallModel ==
    /\ pc = "received"
    /\ \E r \in {handler_until_call(event)} :
           /\ r.at = "call"
           /\ validated' = r.validated
           /\ prompt' = r.v
           /\ requests' = Append(requests, model_request(r.v))
    /\ pc' = "invoking"
    /\ UNCHANGED <<event, remote, invoked, responses, escaped, prev>>

\* the remote call ends the way b says, and the handler runs to its end
Complete(b) ==
    \E outcome \in {invoke_bedrock_model(prompt, b)} :
        /\ remote' = Append(remote, b)
        /\ invoked' = Append(invoked, outcome)
        /\ Deliver(handler_from_call(outcome))
        /\ UNCHANGED <<event, validated, prompt, requests, prev>>

\* lines 142-160, 242-255: invoke_model returns a response
ModelReturns ==
    /\ pc = "invoking"
    /\ \E b \in RemoteBehaviours : b.kind = "returns" /\ Complete(b)

\* lines 162-200, 250-255: invoke_model raises
ModelRaises ==
    /\ pc = "invoking"
    /\ \E b \in RemoteBehaviours : b.kind # "returns" /\ Complete(b)

Next ==
    \/ CorsPreflight
    \/ RejectRequest
    \/ FailBeforeCall
    \/ CallModel
    \/ ModelReturns
    \/ ModelRaises

Spec == Init /\ [][Next]_vars

\* the runtime hands the same event to lambda_handler once more
Redeliver ==
    /\ pc = "responded"
    /\ prev = <<>>
    /\ prev' = Append(prev, [remote |-> remote, responses |-> responses, escaped |-> escaped])
    /\ pc' = "received"
    /\ validated' = <<>>
    /\ prompt' = PyNone
    /\ requests' = <<>>
    /\ remote' = <<>>
    /\ invoked' = <<>>
    /\ responses' = <<>>
    /\ escaped' = <<>>
    /\ UNCHANGED event

NextPair == Next \/ Redeliver

\* two invocations of lambda_handler on one event
SpecPair == Init /\ [][NextPair]_vars
\* -------------------------------------------------------------------------
\* The vocabulary of the properties
\* -------------------------------------------------------------------------
IsMapping(ev) == ev.t = "dict"
MethodKey == PyStr(Lit("httpMethod"))
IsOptions(ev) ==
    /\ IsMapping(ev)
    /\ DictHas(ev, MethodKey)
    /\ DictValue(ev, MethodKey) = PyStr(Lit("OPTIONS"))

\* the six conditions on a request, each meaningful when the ones before hold
BodyPresent(ev) == IsMapping(ev) /\ DictHas(ev, BodyKey) /\ Truthy(DictValue(ev, BodyKey))
BodyParses(ev) ==
    /\ DictValue(ev, BodyKey).t = "str"
    /\ \E v \in JsonValues : json_dumps(v) = DictValue(ev, BodyKey).s
ParsedBody(ev) == CHOOSE v \in JsonValues : json_dumps(v) = DictValue(ev, BodyKey).s
HasPrompt(ev) == ParsedBody(ev).t = "dict" /\ DictHas(ParsedBody(ev), PromptKey)
PromptOf(ev) == DictValue(ParsedBody(ev), PromptKey)
PromptIsString(ev) == PromptOf(ev).t = "str"
PromptNotBlank(ev) == \E i \in 1..Len(PromptOf(ev).s) : ~IsSpace(PromptOf(ev).s[i].c)
PromptFits(ev) == StrLen(PromptOf(ev).s) <= MAX_PROMPT_LEN

\* the event carries a string prompt in a JSON object
HasStringPrompt(ev) ==
    BodyPresent(ev) /\ BodyParses(ev) /\ HasPrompt(ev) /\ PromptIsString(ev)

WellFormed(ev) == HasStringPrompt(ev) /\ PromptNotBlank(ev) /\ PromptFits(ev)

\* a request other than a preflight that is a client input error
ClientInputError(ev) == IsMapping(ev) /\ ~IsOptions(ev) /\ ~WellFormed(ev)

Responded == pc = "responded"
Envelope(status, body) ==
    [statusCode |-> status, headers |-> default_headers, body |-> json_dumps(body)]
ErrorEnvelope(status, error, message) ==
    Envelope(status, PyDict(<<Item("error", PyStr(Lit(error))), Item("message", message)>>))

\* -------------------------------------------------------------------------
\* C1: every invocation ends with exactly one envelope of status 200, 400
\* or 500: no exception leaves lambda_handler, no second envelope is
\* returned, and an invocation that has not answered can take a step.
\* -------------------------------------------------------------------------
\* the guard of one of the actions holds
CanStep ==
    \/ pc = "received" /\ handler_until_call(event).at \in {"return", "raise", "call"}
    \/ pc = "invoking" /\ RemoteBehaviours # {}

C1_OneEnvelope ==
    /\ escaped = <<>>
    /\ Len(responses) <= 1
    /\ Responded => /\ Len(responses) = 1
                    /\ responses[1].statusCode \in {200, 400, 500}
    /\ ~Responded => responses = <<>> /\ CanStep

\* an invocation whose remote call raised an exception of no known class
\* has answered
C1_Witness ==
    /\ Responded
    /\ remote = <<[kind |-> "Exception"]>>
    /\ Len(responses) = 1
    /\ responses[1].statusCode = 500

\* -------------------------------------------------------------------------
\* C2: a request whose httpMethod is OPTIONS is answered 200 with the
\* preflight body whatever its body field holds; validate_request is not
\* called and the model is not invoked.
\* -------------------------------------------------------------------------
C2_Preflight ==
    IsOptions(event) =>
        /\ validated = <<>>
        /\ requests = <<>>
        /\ remote = <<>>
        /\ pc # "invoking"
        /\ Responded =>
             responses = <<Envelope(200,
                 PyDict(<<Item("message", PyStr(Lit("CORS preflight successful")))>>))>>

\* a preflight request that carries a valid prompt has been answered
C2_Witness == Responded /\ IsOptions(event) /\ WellFormed(event) /\ Len(responses) = 1

\* -------------------------------------------------------------------------
\* C3: a request other than a preflight that is a client input error is
\* answered 400 with error "Bad Request" and the reason validate_request
\* returned; the model is never invoked for it.
\* -------------------------------------------------------------------------
C3_BadRequest ==
    ClientInputError(event) =>
        /\ pc # "invoking"
        /\ requests = <<>>
        /\ Responded =>
             /\ Len(validated) = 1
             /\ validated[1].t = "str"
             /\ responses = <<ErrorEnvelope(400, "Bad Request", validated[1])>>

\* a request whose prompt is too long has been answered
C3_Witness ==
    /\ Responded
    /\ ClientInputError(event)
    /\ HasStringPrompt(event) /\ ~PromptFits(event)
    /\ Len(responses) = 1 /\ responses[1].statusCode = 400

\* -------------------------------------------------------------------------
\* C4: validate_request returns the message of the first of the six checks
\* that fails, in the fixed order, and None exactly when all six pass.
\* -------------------------------------------------------------------------
FirstFailure(ev) ==
    IF ~BodyPresent(ev) THEN BodyRequired
    ELSE IF ~BodyParses(ev) THEN InvalidJson
    ELSE IF ~HasPrompt(ev) THEN MissingPrompt
    ELSE IF ~PromptIsString(ev) THEN PromptNotString
    ELSE IF ~PromptNotBlank(ev) THEN PromptEmpty
    ELSE IF ~PromptFits(ev) THEN PromptTooLong
    ELSE PyNone

C4_FirstFailingCheck == validated # <<>> => validated[1] = FirstFailure(event)

\* -------------------------------------------------------------------------
\* C5: for every body that parses as JSON and lacks the key prompt, values
\* that are no object included, validate_request returns the message of the
\* missing prompt.
\* -------------------------------------------------------------------------
C5_MissingPrompt ==
    (validated # <<>> /\ BodyPresent(event) /\ BodyParses(event) /\ ~HasPrompt(event))
        => validated[1] = MissingPrompt

\* -------------------------------------------------------------------------
\* C6 as stated: every string prompt longer than 4000 characters is
\* rejected as too long, and every prompt of exactly 4000 characters passes.
\* -------------------------------------------------------------------------
C6_AnyPrompt ==
    (validated # <<>> /\ HasStringPrompt(event)) =>
        /\ StrLen(PromptOf(event).s) > MAX_PROMPT_LEN => validated[1] = PromptTooLong
        /\ StrLen(PromptOf(event).s) = MAX_PROMPT_LEN => validated[1] = PyNone

\* C6 amended: a string prompt that holds a character other than whitespace
\* is rejected as too long when longer than 4000 characters and passes at
\* exactly 4000; a prompt of whitespace alone is rejected as empty whatever
\* its length.
C6_NonBlankPrompt ==
    (validated # <<>> /\ HasStringPrompt(event)) =>
        IF PromptNotBlank(event)
        THEN /\ StrLen(PromptOf(event).s) > MAX_PROMPT_LEN => validated[1] = PromptTooLong
             /\ StrLen(PromptOf(event).s) = MAX_PROMPT_LEN => validated[1] = PyNone
        ELSE validated[1] = PromptEmpty

\* a padded prompt of exactly 4000 characters has passed validation
C6_Witness ==
    /\ validated = <<PyNone>>
    /\ HasStringPrompt(event)
    /\ StrLen(PromptOf(event).s) = MAX_PROMPT_LEN
    /\ Len(PromptOf(event).s) > 1

\* -------------------------------------------------------------------------
\* C7: invoke_bedrock_model never lets an exception out: whatever the
\* remote call does, it returns a mapping with success True, or success
\* False and an error message.
\* -------------------------------------------------------------------------
IsResult(x) ==
    /\ x.t = "dict"
    /\ DictHas(x, PyStr(Lit("success")))
    /\ DictValue(x, PyStr(Lit("success"))).t = "bool"
    /\ ~DictValue(x, PyStr(Lit("success"))).b =>
          /\ DictHas(x, PyStr(Lit("error")))
          /\ DictValue(x, PyStr(Lit("error"))).t = "str"

C7_NeverPropagates ==
    \A i \in 1..Len(invoked) : invoked[i].ok /\ IsResult(invoked[i].v)

\* -------------------------------------------------------------------------
\* The vocabulary of the properties of the remote call
\* -------------------------------------------------------------------------
\* the Error entry of the payload of a ClientError, an entry of it
ErrorEntry(b, k) ==
    IF /\ b.kind = "ClientError"
       /\ DictHas(b.response, PyStr(Lit("Error")))
       /\ DictValue(b.response, PyStr(Lit("Error"))).t = "dict"
       /\ DictHas(DictValue(b.response, PyStr(Lit("Error"))), PyStr(Lit(k)))
    THEN DictValue(DictValue(b.response, PyStr(Lit("Error"))), PyStr(Lit(k)))
    ELSE PyNone
CodeOf(b) == ErrorEntry(b, "Code")
MessageOf(b) == ErrorEntry(b, "Message")

\* the call returned a body that is a JSON text
ResponseParses(b) ==
    /\ b.kind = "returns"
    /\ DictHas(b.response, BodyKey)
    /\ \E v \in JsonValues : json_dumps(v) = DictValue(b.response, BodyKey).data
ParsedResponse(b) ==
    CHOOSE v \in JsonValues : json_dumps(v) = DictValue(b.response, BodyKey).data

\* the content items of a parsed response
ContentItems(v) ==
    IF /\ v.t = "dict"
       /\ DictHas(v, PyStr(Lit("content")))
       /\ DictValue(v, PyStr(Lit("content"))).t = "list"
    THEN DictValue(v, PyStr(Lit("content"))).l
    ELSE <<>>

HasContentItem(b) == ResponseParses(b) /\ ContentItems(ParsedResponse(b)) # <<>>
FirstItem(b) == ContentItems(ParsedResponse(b))[1]
FirstHasText(b) == FirstItem(b).t = "dict" /\ DictHas(FirstItem(b), PyStr(Lit("text")))
UsageOf(b) ==
    IF DictHas(ParsedResponse(b), PyStr(Lit("usage")))
    THEN DictValue(ParsedResponse(b), PyStr(Lit("usage")))
    ELSE PyDict(<<>>)

\* the messages the failure classes allow for a remote call that failed; a
\* response that is no JSON object may count as one without content items
\* or as any other failure
FailureMessages(b) ==
    CASE b.kind = "BotoCoreError" -> {NetworkError}
      [] b.kind = "Exception" -> {InternalError}
      [] b.kind = "ClientError" ->
            IF CodeOf(b) = PyStr(Lit("AccessDeniedException")) THEN {AccessDenied}
            ELSE IF CodeOf(b) = PyStr(Lit("ValidationException")) THEN {InvalidRequest}
            ELSE IF CodeOf(b) = PyStr(Lit("ThrottlingException")) THEN {Throttled}
            ELSE IF CodeOf(b) = PyNone THEN {InternalError}
            ELSE IF MessageOf(b) = PyNone THEN {PyStr(ServiceErrorPrefix), InternalError}
            ELSE {PyStr(Cat(ServiceErrorPrefix, MessageOf(b).s))}
      [] b.kind = "returns" ->
            IF ~ResponseParses(b) THEN {InternalError}
            ELSE IF ParsedResponse(b).t # "dict" THEN {UnexpectedFormat, InternalError}
            ELSE IF ContentItems(ParsedResponse(b)) = <<>> THEN {UnexpectedFormat}
            ELSE {InternalError}

Called == Responded /\ Len(remote) = 1

\* -------------------------------------------------------------------------
\* C8: a validated request whose remote call fails is answered 500 with
\* error "Internal Server Error" and the message of the failure class.
\* -------------------------------------------------------------------------
C8_FailureMessages ==
    (Called /\ ~(HasContentItem(remote[1]) /\ FirstHasText(remote[1]))) =>
        \E m \in FailureMessages(remote[1]) :
            responses = <<ErrorEnvelope(500, "Internal Server Error", m)>>

\* -------------------------------------------------------------------------
\* C9 as stated: a validated request whose remote call returns a response
\* with at least one content item is answered 200.
\* -------------------------------------------------------------------------
SuccessEnvelope(b) ==
    Envelope(200, PyDict(<<Item("message", PyStr(Lit("Success"))),
                           Item("response", DictValue(FirstItem(b), PyStr(Lit("text")))),
                           Item("model_id", PyStr(Lit("anthropic.claude-3-5-haiku-20241022-v1:0"))),
                           Item("usage", UsageOf(b))>>))

C9_AnyContentItem ==
    (Called /\ HasContentItem(remote[1])) =>
        /\ Len(responses) = 1
        /\ responses[1].statusCode = 200

\* C9 amended: when the first content item carries a text, the answer is 200
\* with message "Success", that text as response, the configured model
\* identifier and the usage returned, or the empty mapping when none was;
\* when the first content item carries no text, the answer is 500 with the
\* message of an internal error.
C9_FirstItemText ==
    (Called /\ HasContentItem(remote[1])) =>
        IF FirstHasText(remote[1])
        THEN responses = <<SuccessEnvelope(remote[1])>>
        ELSE responses = <<ErrorEnvelope(500, "Internal Server Error", InternalError)>>

\* a response of one text item and no usage has been answered 200
C9_Witness ==
    /\ Called
    /\ HasContentItem(remote[1])
    /\ FirstHasText(remote[1])
    /\ ~DictHas(ParsedResponse(remote[1]), PyStr(Lit("usage")))
    /\ Len(responses) = 1 /\ responses[1].statusCode = 200

\* -------------------------------------------------------------------------
\* C10: two invocations on one event whose remote calls fail with the same
\* error code return the same envelope, whatever the service's messages.
\* -------------------------------------------------------------------------
SameCode(b1, b2) ==
    /\ b1.kind = "ClientError" /\ b2.kind = "ClientError"
    /\ CodeOf(b1) # PyNone /\ CodeOf(b1) = CodeOf(b2)
    /\ MessageOf(b1) # PyNone /\ MessageOf(b2) # PyNone

C10_NoLeak ==
    (Called /\ Len(prev) = 1 /\ Len(prev[1].remote) = 1
        /\ SameCode(prev[1].remote[1], remote[1]))
        => responses = prev[1].responses

\* -------------------------------------------------------------------------
\* C11: invoke_model is called at most once in an invocation, a call that
\* failed is not followed by another one, the call is made only after
\* validate_request has returned None on a request that is no preflight, and
\* the prompt sent is the prompt of the request with the surrounding
\* whitespace removed, of 1 to 4000 characters.
\* -------------------------------------------------------------------------
\* the prompt of the request without its leading and trailing whitespace
TrimmedPrompt(ev) == PyStr(strip(PromptOf(ev).s))

\* the call of invoke_model that carries the prompt p
RequestFor(p) ==
    [modelId |-> BEDROCK_MODEL_ID,
     body |-> json_dumps(
         PyDict(<<Item("anthropic_version", PyStr(Lit("bedrock-2023-05-31"))),
                  Item("max_tokens", PyInt(4000)),
                  Item("temperature", PyFloat("0.7")),
                  Item("messages",
                       PyList(<<PyDict(<<Item("role", PyStr(Lit("user"))),
                                         Item("content", p)>>)>>))>>)),
     contentType |-> "application/json", accept |-> "application/json"]

C11_CalledOnce ==
    /\ Len(requests) <= 1
    /\ Len(remote) <= Len(requests)
    /\ requests # <<>> =>
         /\ ~IsOptions(event)
         /\ validated = <<PyNone>>
         /\ WellFormed(event)
         /\ prompt = TrimmedPrompt(event)
         /\ requests = <<RequestFor(TrimmedPrompt(event))>>
         /\ StrLen(prompt.s) \in 1..4000

\* a padded prompt has been sent trimmed, the call has failed, and the
\* invocation has ended without a second call
C11_Witness ==
    /\ Responded
    /\ Len(requests) = 1
    /\ Len(remote) = 1 /\ remote[1].kind # "returns"
    /\ prompt # PromptOf(event)
    /\ requests = <<RequestFor(prompt)>>
    /\ StrLen(prompt.s) = 4000 - 1

====
